---------------------------- MODULE Spec2Model ----------------------------
(***************************************************************************)
(* zuu::bytes<N> (src/bytes.hpp): a fixed-size byte array with bitwise,   *)
(* shift, rotate, bit-level, integer and endian operations.               *)
(*                                                                         *)
(* One object x of type bytes<N> is modelled: data_ is its storage, every  *)
(* member function is one action.  A const member function leaves data_    *)
(* alone and puts what it returns in ret (a bytes value), val (an integer) *)
(* or flag (a bool); a mutating member function changes data_.  call names *)
(* the member function that ran last and its arguments, pre is the value   *)
(* of data_ when it was called.                                            *)
(*                                                                         *)
(* The template argument N and the host's byte order are fixed when the   *)
(* program is built: Init picks them.  Each family of member functions    *)
(* has a specification of its own (SpecEndian, SpecInt, SpecShift,        *)
(* SpecBit, SpecIndex, SpecAlgebra) over the same state.  Integral types  *)
(* of 1 and 2 bytes are modelled (TLC's integers stop at 2^31 - 1).        *)
(***************************************************************************)
EXTENDS Integers, Sequences, FiniteSets, TLC

\* ------------------------------------------------------------- bounds ---
\* Largest template argument N that is instantiated.
MaxN == 2
\* Mutating member functions applied to the object since its construction.
MaxSteps == 2
\* Bit positions, shift amounts and indices run this far past the last valid one.
Beyond == 2

\* Byte values the inputs are drawn from (results range over all of 0..255).
ByteVals == {0, 1, 128, 255}

\* Fill values the fill constructor is called with: no bit set, every bit set.
FillVals == {0, 255}

\* Bytes fill() and the operands of |= are made of: the nibble patterns F0 and 0F
\* of the example program, no bit set, every bit set.
MaskVals == {0, 15, 240, 255}

\* ------------------------------------------------------ byte_t, ints ---
\* uint8_t holds 8 bits.
ByteBits == 8
ByteMod == 2 ^ ByteBits

RECURSIVE OrInt(_, _)
\* a | b on non-negative ints.
OrInt(a, b) ==
    IF a = 0 THEN b
    ELSE IF b = 0 THEN a
    ELSE (IF a % 2 = 1 \/ b % 2 = 1 THEN 1 ELSE 0) + 2 * OrInt(a \div 2, b \div 2)

RECURSIVE AndInt(_, _)
\* a & b on non-negative ints.
AndInt(a, b) ==
    IF a = 0 \/ b = 0 THEN 0
    ELSE (IF a % 2 = 1 /\ b % 2 = 1 THEN 1 ELSE 0) + 2 * AndInt(a \div 2, b \div 2)

RECURSIVE XorInt(_, _)
\* a ^ b on non-negative ints.
XorInt(a, b) ==
    IF a = 0 THEN b
    ELSE IF b = 0 THEN a
    ELSE (IF a % 2 # b % 2 THEN 1 ELSE 0) + 2 * XorInt(a \div 2, b \div 2)

RECURSIVE AndNotInt(_, _)
\* a & ~m for a non-negative a no wider than m's type: a's bits where m has none.
AndNotInt(a, m) ==
    IF a = 0 THEN 0
    ELSE (IF a % 2 = 1 /\ m % 2 = 0 THEN 1 ELSE 0) + 2 * AndNotInt(a \div 2, m \div 2)

\* Conversion of an int to byte_t (assignment to a byte_t, static_cast<byte_t>).
ToByte(v) == v % ByteMod

\* ~b of a byte_t b, stored back into a byte_t: b is promoted to int, ~b = -b - 1.
NotByte(b) == ToByte(-b - 1)

\* std::popcount of a byte_t.
RECURSIVE PopByte(_)
PopByte(b) == IF b = 0 THEN 0 ELSE (b % 2) + PopByte(b \div 2)

\* -------------------------------------------------------- integral types ---
\* The integral types IntT the templates are instantiated with.
IntTypes == {"uint8_t", "int8_t", "uint16_t", "int16_t"}

\* sizeof(IntT), in bytes.
sizeof(T) == IF T \in {"uint8_t", "int8_t"} THEN 1 ELSE 2

\* std::is_signed_v<IntT>.
is_signed(T) == T \in {"int8_t", "int16_t"}

\* The values of type IntT.
ValuesOf(T) ==
    IF is_signed(T) THEN -(2 ^ (8 * sizeof(T) - 1)) .. (2 ^ (8 * sizeof(T) - 1)) - 1
    ELSE 0 .. (2 ^ (8 * sizeof(T))) - 1

\* Conversion of an int to IntT (modular, two's complement).
ToIntT(T, v) ==
    LET m == 2 ^ (8 * sizeof(T))
        u == v % m
    IN  IF is_signed(T) /\ u >= m \div 2 THEN u - m ELSE u

\* The bit pattern of a value of IntT, as a non-negative int below 2^(8*sizeof).
Pattern(T, v) == v % (2 ^ (8 * sizeof(T)))

\* Integer inputs: the corners of each type and mixed byte patterns.
IntVals(T) ==
    ValuesOf(T) \cap {-32768, -21555, -256, -129, -128, -91, -2, -1, 0, 1, 2, 127, 128,
                      165, 255, 256, 4660, 32767, 32768, 43981, 65280, 65535}

\* ------------------------------------------------------------- the state ---
VARIABLES
    N,              \* the template argument: byte_count
    native_endian,  \* the byte order of the host the program was built for
    data_,          \* byte_t data_[N] of the object
    origin,         \* the constructor call that made the object (its integer arguments)
    steps,          \* mutating calls on the object since its construction
    call,           \* the member function that ran last, with its arguments
    pre,            \* data_ when that member function was called
    ret,            \* the bytes value it returned
    val,            \* the integer it returned
    flag            \* the bool it returned

vars == <<N, native_endian, data_, origin, steps, call, pre, ret, val, flag>>

\* enum class endian_t.
endian_t == {"little", "big"}

\* constexpr bool is_little_endian.
is_little_endian == native_endian = "little"

\* constexpr bool is_big_endian.
is_big_endian == native_endian = "big"

\* static constexpr size_type bit_count = N * 8.
bit_count == N * 8

\* bytes{}: byte_t data_[N]{} with every byte zero.
Zero == [i \in 0 .. N - 1 |-> 0]

\* The bytes<N> values the operands are drawn from.
Bufs == [0 .. N - 1 -> ByteVals]

\* Bit positions and shift amounts passed in: valid ones and some past the end.
Positions == 0 .. bit_count + Beyond

\* Rotation amounts passed in: below, at and above bit_count, and twice bit_count.
Rotations == 0 .. 2 * bit_count + Beyond

\* Byte indices passed in: valid ones and some past the end.
Indices == 0 .. N - 1 + Beyond

\* ---------------------------------------------------------- constructors ---
\* bytes(const byte_t (&data)[N]): element-wise copy.
bytes_array(data) == [i \in 0 .. N - 1 |-> data[i]]

\* bytes(byte_t fill_value).
bytes_fill(fill_value) == [i \in 0 .. N - 1 |-> fill_value]

\* template <typename IntT> bytes(IntT value): value >> (i * 8) is an arithmetic
\* shift of the promoted value, static_cast<byte_t> keeps its low 8 bits.
bytes_IntT(T, value) ==
    LET copy == IF sizeof(T) < N THEN sizeof(T) ELSE N
    IN  [i \in 0 .. N - 1 |->
            IF i < copy THEN ToByte(value \div (2 ^ (i * 8))) ELSE 0]

\* bytes x(value) for a value of integral type T: overload resolution prefers the
\* non-template bytes(byte_t) when T is byte_t itself (an exact match on both),
\* and the template, an exact match, for every other T.
bytes_of(T, value) ==
    IF T = "uint8_t" THEN bytes_fill(value) ELSE bytes_IntT(T, value)

\* -------------------------------------------------------- element access ---
\* operator[] with an index that wraps around instead of being clamped.
op_index_wrapping(i) == i % N

\* The element operator[](i) refers to: data_[i < N ? i : N - 1].
op_index(i) == IF i < N THEN i ELSE N - 1

\* -------------------------------------------------------------- bitwise ---
\* operator|.
op_or(d, o) == [i \in 0 .. N - 1 |-> ToByte(OrInt(d[i], o[i]))]

\* operator& that combines the bytes with | instead of &.
op_and_as_or(d, o) == [i \in 0 .. N - 1 |-> ToByte(OrInt(d[i], o[i]))]

\* operator&.
op_and(d, o) == [i \in 0 .. N - 1 |-> ToByte(AndInt(d[i], o[i]))]

\* operator^.
op_xor(d, o) == [i \in 0 .. N - 1 |-> ToByte(XorInt(d[i], o[i]))]

\* operator~.
op_not(d) == [i \in 0 .. N - 1 |-> NotByte(d[i])]

\* ---------------------------------------------------------------- shifts ---
RECURSIVE ShlLoop_no_carry(_, _, _, _, _, _)
\* The loop of operator<< without the carry into the next byte.
ShlLoop_no_carry(d, r, i, carry, byte_sh, bit_sh) ==
    IF i < N - byte_sh
    THEN ShlLoop_no_carry(d,
                 [r EXCEPT ![i + byte_sh] = ToByte(d[i] * (2 ^ bit_sh))],
                 i + 1, 0, byte_sh, bit_sh)
    ELSE r

RECURSIVE ShlLoop(_, _, _, _, _, _)
\* The loop of operator<< for bit_sh # 0: i runs from 0 up to N - byte_sh - 1.
ShlLoop(d, r, i, carry, byte_sh, bit_sh) ==
    IF i < N - byte_sh
    THEN ShlLoop(d,
                 [r EXCEPT ![i + byte_sh] = ToByte(OrInt(d[i] * (2 ^ bit_sh), carry))],
                 i + 1,
                 ToByte(d[i] \div (2 ^ (8 - bit_sh))),
                 byte_sh, bit_sh)
    ELSE r

\* operator<<.
op_shl(d, bits) ==
    IF bits = 0 THEN d
    ELSE IF bits >= bit_count THEN Zero
    ELSE LET byte_sh == bits \div 8
             bit_sh == bits % 8
         IN  IF bit_sh = 0
             THEN [i \in 0 .. N - 1 |-> IF i >= byte_sh THEN d[i - byte_sh] ELSE 0]
             ELSE ShlLoop(d, Zero, 0, 0, byte_sh, bit_sh)

RECURSIVE ShrLoop_no_carry(_, _, _, _, _, _)
\* The loop of operator>> without the carry from the next byte.
ShrLoop_no_carry(d, r, i, carry, byte_sh, bit_sh) ==
    IF i >= 0
    THEN ShrLoop_no_carry(d,
                 [r EXCEPT ![i] = ToByte(d[i + byte_sh] \div (2 ^ bit_sh))],
                 i - 1, 0, byte_sh, bit_sh)
    ELSE r

RECURSIVE ShrLoop(_, _, _, _, _, _)
\* The loop of operator>> for bit_sh # 0: for (i = N - byte_sh; i-- > 0;), entered
\* here with i already decremented, so i runs from N - byte_sh - 1 down to 0.
ShrLoop(d, r, i, carry, byte_sh, bit_sh) ==
    IF i >= 0
    THEN ShrLoop(d,
                 [r EXCEPT ![i] = ToByte(OrInt(d[i + byte_sh] \div (2 ^ bit_sh), carry))],
                 i - 1,
                 ToByte(d[i + byte_sh] * (2 ^ (8 - bit_sh))),
                 byte_sh, bit_sh)
    ELSE r

\* operator>>.
op_shr(d, bits) ==
    IF bits = 0 THEN d
    ELSE IF bits >= bit_count THEN Zero
    ELSE LET byte_sh == bits \div 8
             bit_sh == bits % 8
         IN  IF bit_sh = 0
             THEN [i \in 0 .. N - 1 |-> IF i < N - byte_sh THEN d[i + byte_sh] ELSE 0]
             ELSE ShrLoop(d, Zero, N - byte_sh - 1, 0, byte_sh, bit_sh)

\* ------------------------------------------------------ bit manipulation ---
\* set_bit whose position wraps around instead of being ignored.
set_bit_wrapping(d, pos) ==
    [d EXCEPT ![(pos % bit_count) \div 8] = ToByte(OrInt(@, 2 ^ (pos % 8)))]

\* set_bit: the new data_.
set_bit(d, pos) ==
    IF pos < bit_count
    THEN [d EXCEPT ![pos \div 8] = ToByte(OrInt(@, 2 ^ (pos % 8)))]
    ELSE d

\* clear_bit: the new data_.
clear_bit(d, pos) ==
    IF pos < bit_count
    THEN [d EXCEPT ![pos \div 8] = ToByte(AndNotInt(@, 2 ^ (pos % 8)))]
    ELSE d

\* toggle_bit: the new data_.
toggle_bit(d, pos) ==
    IF pos < bit_count
    THEN [d EXCEPT ![pos \div 8] = ToByte(XorInt(@, 2 ^ (pos % 8)))]
    ELSE d

\* test_bit.
test_bit(d, pos) ==
    pos < bit_count /\ AndInt(d[pos \div 8], 2 ^ (pos % 8)) # 0

RECURSIVE PopLoop(_, _, _)
\* The loop of popcount.
PopLoop(d, i, c) == IF i < N THEN PopLoop(d, i + 1, c + PopByte(d[i])) ELSE c

\* popcount whose loop starts at byte 1.
popcount_from_1(d) == PopLoop(d, 1, 0)

\* popcount.
popcount(d) == PopLoop(d, 0, 0)

\* -------------------------------------------------------------- rotation ---
\* rotate_left that shifts the way rotate_right does.
rotate_left_as_right(d, n) ==
    LET m == n % bit_count
    IN  op_or(op_shr(d, m), op_shl(d, bit_count - m))

\* rotate_left.
rotate_left(d, n) ==
    LET m == n % bit_count
    IN  op_or(op_shl(d, m), op_shr(d, bit_count - m))

\* rotate_right.
rotate_right(d, n) ==
    LET m == n % bit_count
    IN  op_or(op_shr(d, m), op_shl(d, bit_count - m))

\* ------------------------------------------------------------ conversion ---
RECURSIVE ToIntLoop(_, _, _, _, _)
\* The loop of to_int<IntT>(): r |= static_cast<IntT>(data_[i]) << (i * 8), on the
\* bit patterns of r and of the shifted operand, converted back to IntT.
ToIntLoop(T, d, i, copy, r) ==
    IF i < copy
    THEN ToIntLoop(T, d, i + 1, copy,
                   ToIntT(T, OrInt(Pattern(T, r),
                                   Pattern(T, ToIntT(T, d[i]) * (2 ^ (i * 8))))))
    ELSE r

\* to_int<IntT>().
to_int(T, d) ==
    LET copy == IF sizeof(T) < N THEN sizeof(T) ELSE N
    IN  ToIntLoop(T, d, 0, copy, 0)

\* ------------------------------------------------------------- modifiers ---
\* fill: the new data_.
fill(v) == [i \in 0 .. N - 1 |-> v]

\* reverse.
reverse(d) == [i \in 0 .. N - 1 |-> d[N - 1 - i]]

RECURSIVE SwapLoop(_, _)
\* The loop of swap_bytes.
SwapLoop(d, i) ==
    IF i < N \div 2
    THEN SwapLoop([d EXCEPT ![i] = d[N - 1 - i], ![N - 1 - i] = d[i]], i + 1)
    ELSE d

\* swap_bytes: the new data_.
swap_bytes(d) == SwapLoop(d, 0)

\* ------------------------------------------------------ endian conversion ---
\* to_little_endian.
to_little_endian(d) == IF is_little_endian THEN d ELSE reverse(d)

\* to_big_endian with its host test inverted.
to_big_endian_inverted(d) == IF is_big_endian THEN reverse(d) ELSE d

\* to_big_endian.
to_big_endian(d) == IF is_big_endian THEN d ELSE reverse(d)

\* to_network.
to_network(d) == to_big_endian(d)

\* from_little_endian.
from_little_endian(d) == to_little_endian(d)

\* from_big_endian.
from_big_endian(d) == to_big_endian(d)

\* from_network.
from_network(d) == from_big_endian(d)

\* to_endian with its comparison inverted.
to_endian_inverted(d, target) == IF target # native_endian THEN d ELSE reverse(d)

\* to_endian.
to_endian(d, target) == IF target = native_endian THEN d ELSE reverse(d)

\* from_endian.
from_endian(d, source) == to_endian(d, source)

\* make_little_endian: the new data_.
make_little_endian(d) == IF ~is_little_endian THEN swap_bytes(d) ELSE d

\* make_big_endian: the new data_.
make_big_endian(d) == IF ~is_big_endian THEN swap_bytes(d) ELSE d

\* to_int<IntT>(endian_t source_endian).
to_int_endian(T, d, source_endian) == to_int(T, from_endian(d, source_endian))

\* from_int that swaps when the target is the host's order.
from_int_inverted(T, value, target_endian) ==
    LET result == bytes_of(T, value)
    IN  IF target_endian = native_endian THEN swap_bytes(result) ELSE result

\* from_int<IntT>(value, target_endian).
from_int(T, value, target_endian) ==
    LET result == bytes_of(T, value)
    IN  IF target_endian # native_endian THEN swap_bytes(result) ELSE result

\* --------------------------------------------------------------- actions ---
\* A call: the function's name, its numeric argument n (bits, pos, index or
\* value), its bytes operand o, its endian_t argument e, its template argument T,
\* and the byte v assigned through the reference it returned (operator[] only).
Call(op, n, o, e, T) == [op |-> op, n |-> n, o |-> o, e |-> e, T |-> T, v |-> 0]

\* A constructor ran: a new object whose storage is d.
Constructs(c, d) ==
    /\ data_' = d
    /\ origin' = c
    /\ call' = c
    /\ steps' = 0
    /\ pre' = d
    /\ ret' = Zero
    /\ val' = 0
    /\ flag' = FALSE
    /\ UNCHANGED <<N, native_endian>>

\* A const member function ran: it returned r, v or f and left the object alone.
Returns(c, r, v, f) ==
    /\ call' = c
    /\ pre' = data_
    /\ ret' = r
    /\ val' = v
    /\ flag' = f
    /\ UNCHANGED <<N, native_endian, data_, origin, steps>>

\* A mutating member function ran: the object's storage is now d.
Mutates(c, d) ==
    /\ steps < MaxSteps
    /\ call' = c
    /\ pre' = data_
    /\ data_' = d
    /\ steps' = steps + 1
    /\ ret' = Zero
    /\ val' = 0
    /\ flag' = FALSE
    /\ UNCHANGED <<N, native_endian, origin>>

\* bytes<N> x;
Init ==
    /\ N \in 1 .. MaxN
    /\ native_endian \in endian_t
    /\ data_ = [i \in 0 .. N - 1 |-> 0]
    /\ origin = Call("bytes()", 0, [i \in 0 .. N - 1 |-> 0], "", "")
    /\ call = origin
    /\ steps = 0
    /\ pre = data_
    /\ ret = data_
    /\ val = 0
    /\ flag = FALSE

\* x = bytes<N>();
ConstructDefault == Constructs(Call("bytes()", 0, Zero, "", ""), Zero)

\* x = bytes<N>(data) for a byte_t data[N].
ConstructArray ==
    \E data \in Bufs : Constructs(Call("bytes(array)", 0, Zero, "", ""), bytes_array(data))

\* x = bytes<N>(value) for a value of integral type T.
ConstructValue ==
    \E T \in IntTypes : \E value \in IntVals(T) :
        Constructs(Call("bytes(value)", value, Zero, "", T), bytes_of(T, value))

\* x = bytes<N>(fill_value) for a byte_t fill_value.
ConstructFill ==
    \E fill_value \in FillVals :
        Constructs(Call("bytes(value)", fill_value, Zero, "", "uint8_t"),
                   bytes_of("uint8_t", fill_value))

\* x = bytes<N>::from_int(value, target_endian).
FromInt ==
    \E T \in IntTypes : \E value \in IntVals(T) : \E target_endian \in endian_t :
        Constructs(Call("from_int", value, Zero, target_endian, T),
                   from_int(T, value, target_endian))

\* x[i] read through the const operator[].
IndexRead ==
    \E i \in Indices : Returns(Call("operator[]", i, Zero, "", ""), Zero, data_[op_index(i)], FALSE)

\* x[i] = v through the non-const operator[].
IndexWrite ==
    \E i \in Indices : \E v \in ByteVals :
        Mutates([Call("operator[]=", i, Zero, "", "") EXCEPT !.v = v],
                [data_ EXCEPT ![op_index(i)] = v])

\* x | o
Or == \E o \in Bufs : Returns(Call("operator|", 0, o, "", ""), op_or(data_, o), 0, FALSE)

\* x & o
And == \E o \in Bufs : Returns(Call("operator&", 0, o, "", ""), op_and(data_, o), 0, FALSE)

\* x ^ o
Xor == \E o \in Bufs : Returns(Call("operator^", 0, o, "", ""), op_xor(data_, o), 0, FALSE)

\* ~x
Not == Returns(Call("operator~", 0, Zero, "", ""), op_not(data_), 0, FALSE)

\* x << bits
ShiftLeft ==
    \E bits \in Positions : Returns(Call("operator<<", bits, Zero, "", ""), op_shl(data_, bits), 0, FALSE)

\* x >> bits
ShiftRight ==
    \E bits \in Positions : Returns(Call("operator>>", bits, Zero, "", ""), op_shr(data_, bits), 0, FALSE)

\* x.set_bit(pos)
SetBit == \E pos \in Positions : Mutates(Call("set_bit", pos, Zero, "", ""), set_bit(data_, pos))

\* x.clear_bit(pos)
ClearBit == \E pos \in Positions : Mutates(Call("clear_bit", pos, Zero, "", ""), clear_bit(data_, pos))

\* x.toggle_bit(pos)
ToggleBit == \E pos \in Positions : Mutates(Call("toggle_bit", pos, Zero, "", ""), toggle_bit(data_, pos))

\* x.test_bit(pos)
TestBit ==
    \E pos \in Positions : Returns(Call("test_bit", pos, Zero, "", ""), Zero, 0, test_bit(data_, pos))

\* x.popcount()
Popcount == Returns(Call("popcount", 0, Zero, "", ""), Zero, popcount(data_), FALSE)

\* x.fill(v)
Fill == \E v \in MaskVals : Mutates(Call("fill", v, Zero, "", ""), fill(v))

\* x |= o
OrAssign ==
    \E o \in [0 .. N - 1 -> MaskVals \ {0, 255}] :
        Mutates(Call("operator|=", 0, o, "", ""), op_or(data_, o))

\* x.rotate_left(n)
RotateLeft ==
    \E n \in Rotations : Returns(Call("rotate_left", n, Zero, "", ""), rotate_left(data_, n), 0, FALSE)

\* x.rotate_right(n)
RotateRight ==
    \E n \in Rotations : Returns(Call("rotate_right", n, Zero, "", ""), rotate_right(data_, n), 0, FALSE)

\* x.to_int<T>()
ToInt == \E T \in IntTypes : Returns(Call("to_int", 0, Zero, "", T), Zero, to_int(T, data_), FALSE)

\* x.to_int<T>(source_endian)
ToIntEndian ==
    \E T \in IntTypes : \E source_endian \in endian_t :
        Returns(Call("to_int(endian)", 0, Zero, source_endian, T), Zero,
                to_int_endian(T, data_, source_endian), FALSE)

\* x.reverse()
Reverse == Returns(Call("reverse", 0, Zero, "", ""), reverse(data_), 0, FALSE)

\* x.swap_bytes()
SwapBytes == Mutates(Call("swap_bytes", 0, Zero, "", ""), swap_bytes(data_))

\* x.to_little_endian()
ToLittleEndian == Returns(Call("to_little_endian", 0, Zero, "", ""), to_little_endian(data_), 0, FALSE)

\* x.to_big_endian()
ToBigEndian == Returns(Call("to_big_endian", 0, Zero, "", ""), to_big_endian(data_), 0, FALSE)

\* x.to_network()
ToNetwork == Returns(Call("to_network", 0, Zero, "", ""), to_network(data_), 0, FALSE)

\* x.from_little_endian()
FromLittleEndian ==
    Returns(Call("from_little_endian", 0, Zero, "", ""), from_little_endian(data_), 0, FALSE)

\* x.from_big_endian()
FromBigEndian == Returns(Call("from_big_endian", 0, Zero, "", ""), from_big_endian(data_), 0, FALSE)

\* x.from_network()
FromNetwork == Returns(Call("from_network", 0, Zero, "", ""), from_network(data_), 0, FALSE)

\* x.to_endian(target)
ToEndian ==
    \E target \in endian_t : Returns(Call("to_endian", 0, Zero, target, ""), to_endian(data_, target), 0, FALSE)

\* x.from_endian(source)
FromEndian ==
    \E source \in endian_t :
        Returns(Call("from_endian", 0, Zero, source, ""), from_endian(data_, source), 0, FALSE)

\* x.make_little_endian()
MakeLittleEndian == Mutates(Call("make_little_endian", 0, Zero, "", ""), make_little_endian(data_))

\* x.make_big_endian()
MakeBigEndian == Mutates(Call("make_big_endian", 0, Zero, "", ""), make_big_endian(data_))

\* ---------------------------------------------------------- specifications ---
\* Construction from bytes.
Construct == ConstructDefault \/ ConstructArray

\* Construction from an integer.
ConstructInt == ConstructValue \/ FromInt

\* The endian conversion family on constructed objects.
NextEndian ==
    \/ Construct \/ ConstructInt
    \/ Reverse \/ SwapBytes
    \/ ToLittleEndian \/ ToBigEndian \/ ToNetwork
    \/ FromLittleEndian \/ FromBigEndian \/ FromNetwork
    \/ ToEndian \/ FromEndian
    \/ MakeLittleEndian \/ MakeBigEndian

SpecEndian == Init /\ [][NextEndian]_vars

\* Integer construction and extraction.
NextInt == Construct \/ ConstructInt \/ ToInt \/ ToIntEndian \/ SwapBytes

SpecInt == Init /\ [][NextInt]_vars

\* Shifts and rotations.
NextShift ==
    \/ Construct \/ ConstructValue
    \/ ShiftLeft \/ ShiftRight
    \/ RotateLeft \/ RotateRight

SpecShift == Init /\ [][NextShift]_vars

\* Sequences of bit-level calls on an object that starts zeroed or filled.
NextBit ==
    \/ ConstructDefault \/ ConstructFill
    \/ SetBit \/ ClearBit \/ ToggleBit \/ TestBit

SpecBit == Init /\ [][NextBit]_vars

\* Element access through operator[].
NextIndex == Construct \/ IndexRead \/ IndexWrite

SpecIndex == Init /\ [][NextIndex]_vars

\* Counting the bits after sequences of bit-level calls, fill and |=.
NextCount ==
    \/ ConstructDefault \/ ConstructFill
    \/ SetBit \/ ClearBit \/ ToggleBit
    \/ Fill \/ OrAssign
    \/ Popcount \/ ToInt

SpecCount == Init /\ [][NextCount]_vars

\* The bitwise algebra.
NextAlgebra ==
    \/ Construct \/ ConstructValue
    \/ Or \/ And \/ Xor \/ Not

SpecAlgebra == Init /\ [][NextAlgebra]_vars

\* ------------------------------------------------------------ properties ---
\* The byte sequence d read backwards.
Backwards(d) == [i \in 0 .. N - 1 |-> d[N - 1 - i]]

\* Bits 8k .. 8k+7 of the integer v (two's complement for a negative v).
BitsOf(v, k) == (v \div (2 ^ (8 * k))) % 256

\* C1 as stated: to_little_endian() applied to the result of x.to_big_endian()
\* equals x, for every buffer x.
C1_RoundTripIsIdentity ==
    call.op = "to_big_endian" => to_little_endian(ret) = pre

\* C1 as amended: to_little_endian() applied to the result of x.to_big_endian() is
\* x read backwards (on a little-endian and on a big-endian host exactly one of
\* the two calls reverses); it is the same conversion applied twice that returns x.
C1_RoundTripReverses ==
    /\ call.op = "to_big_endian" =>
          /\ to_little_endian(ret) = Backwards(pre)
          /\ to_big_endian(ret) = pre
    /\ call.op = "to_little_endian" =>
          /\ to_big_endian(ret) = Backwards(pre)
          /\ to_little_endian(ret) = pre

\* C1's case: to_big_endian() returned, on a little-endian host, for a two-byte x
\* whose bytes differ.
C1_Witness ==
    /\ call.op = "to_big_endian"
    /\ native_endian = "little"
    /\ N = 2
    /\ pre[0] # pre[1]
    /\ ret # pre

\* C2: for a buffer built by the integer constructor from an N-byte integer v,
\* on any host, the buffer holds v least-significant byte first and
\* to_big_endian() / to_network() return v most-significant byte first.
C2_BigEndianOrder ==
    ( /\ call.op \in {"to_big_endian", "to_network"}
      /\ origin.op = "bytes(value)"
      /\ steps = 0
      /\ sizeof(origin.T) = N )
    => /\ \A i \in 0 .. N - 1 : pre[i] = BitsOf(origin.n, i)
       /\ \A i \in 0 .. N - 1 : ret[i] = BitsOf(origin.n, N - 1 - i)

\* C9: to_endian(target) returns x when target is the host's order and x read
\* backwards otherwise; from_endian returns the same; from_little_endian,
\* from_big_endian and from_network return what their to_ counterparts return.
C9_RuntimeEndian ==
    /\ call.op \in {"to_endian", "from_endian"} =>
          ret = IF call.e = native_endian THEN pre ELSE Backwards(pre)
    /\ call.op = "from_endian" => ret = to_endian(pre, call.e)
    /\ call.op = "from_little_endian" => ret = to_little_endian(pre)
    /\ call.op = "from_big_endian" => ret = to_big_endian(pre)
    /\ call.op = "from_network" => ret = to_network(pre)

\* C9's case: to_endian(target) returned for a target that is not the host's
\* order, on a two-byte x whose bytes differ.
C9_Witness ==
    /\ call.op = "to_endian"
    /\ call.e # native_endian
    /\ N = 2
    /\ pre[0] # pre[1]
    /\ ret[0] = pre[1]

C4_IntegerConstructor ==
    call.op = "bytes(value)" =>
        \A i \in 0 .. N - 1 :
            data_[i] = IF i < sizeof(call.T) /\ i < N THEN BitsOf(call.n, i) ELSE 0

\* Bit p of the buffer d: bit p % 8 of byte p \div 8.
BitAt(d, p) == (d[p \div 8] \div (2 ^ (p % 8))) % 2

\* d is a bytes<N> value: N bytes, each within 8 bits.
IsBytes(d) == DOMAIN d = 0 .. N - 1 /\ \A i \in 0 .. N - 1 : d[i] \in 0 .. 255

\* C5: for s in [0, bit_count), x << s followed by >> s is x with its top s bits
\* cleared and every other bit unchanged; x << bit_count is all zero.
C5_ShiftLeftThenRight ==
    /\ (call.op = "operator<<" /\ call.n < bit_count) =>
          LET y == op_shr(ret, call.n)
          IN  /\ IsBytes(y)
              /\ \A p \in 0 .. bit_count - 1 :
                    BitAt(y, p) = IF p >= bit_count - call.n THEN 0 ELSE BitAt(pre, p)
    /\ (call.op = "operator<<" /\ call.n = bit_count) =>
          ret = [i \in 0 .. N - 1 |-> 0]

\* C5's case: a two-byte x of all ones was shifted left by 3, and shifting the
\* result right by 3 loses the top 3 bits only.
C5_Witness ==
    /\ call.op = "operator<<"
    /\ call.n = 3
    /\ N = 2
    /\ pre = [i \in 0 .. 1 |-> 255]
    /\ ret = (0 :> 248 @@ 1 :> 255)
    /\ op_shr(ret, 3) = (0 :> 255 @@ 1 :> 31)

\* C6: for every n, rotate_right(n) applied to x.rotate_left(n) returns x, and
\* x.rotate_left(bit_count) equals x.
C6_RotateRoundTrip ==
    call.op = "rotate_left" =>
        /\ IsBytes(ret)
        /\ rotate_right(ret, call.n) = pre
        /\ (call.n = bit_count => ret = pre)

\* C6's case: x was rotated left by more than bit_count, by an amount that is
\* neither a multiple of bit_count nor of 8, which changed it.
C6_Witness ==
    /\ call.op = "rotate_left"
    /\ call.n > bit_count
    /\ call.n % bit_count # 0
    /\ call.n % 8 # 0
    /\ ret # pre
    /\ rotate_right(ret, call.n) = pre

\* C7: set_bit, clear_bit and toggle_bit at a position >= bit_count leave the
\* buffer as it was, and test_bit at such a position returns false.
C7_OutOfRangeBit ==
    /\ (call.op \in {"set_bit", "clear_bit", "toggle_bit"} /\ call.n >= bit_count) =>
          data_ = pre
    /\ (call.op = "test_bit" /\ call.n >= bit_count) => flag = FALSE

\* C7's case: the second of two mutating calls was toggle_bit(bit_count) on a
\* buffer that is not all zero.
C7_Witness ==
    /\ call.op = "toggle_bit"
    /\ call.n = bit_count
    /\ steps = 2
    /\ data_ = pre
    /\ \E i \in 0 .. N - 1 : data_[i] # 0

\* C8: operator[](i) refers to byte N - 1 when i >= N and to byte i when i < N,
\* for reading and for writing.
C8_IndexClamped ==
    LET k == IF call.n >= N THEN N - 1 ELSE call.n
    IN  /\ call.op = "operator[]" => val = pre[k]
        /\ call.op = "operator[]=" =>
              \A j \in 0 .. N - 1 : data_[j] = IF j = k THEN call.v ELSE pre[j]

\* C8's case: a write through x[i] with i >= N and i a multiple of N changed
\* the last byte and left byte 0 alone.
C8_Witness ==
    /\ call.op = "operator[]="
    /\ N = 2
    /\ call.n >= N
    /\ call.n % N = 0
    /\ data_[N - 1] = call.v
    /\ pre[N - 1] # call.v
    /\ data_[0] # call.v

\* C10: (a AND b) OR (a AND NOT b) equals a, where AND acts bit by bit on each
\* byte and NOT stays within 8 bits per byte.
C10_AndOrNot ==
    /\ call.op = "operator&" =>
          /\ IsBytes(ret)
          /\ \A p \in 0 .. bit_count - 1 : BitAt(ret, p) = BitAt(pre, p) * BitAt(call.o, p)
          /\ op_or(ret, op_and(pre, op_not(call.o))) = pre
    /\ call.op = "operator~" =>
          /\ IsBytes(ret)
          /\ \A p \in 0 .. bit_count - 1 : BitAt(ret, p) = 1 - BitAt(pre, p)

\* C10's case: a = A5 FF and b = 01 80 were combined by operator&.
C10_Witness ==
    /\ call.op = "operator&"
    /\ N = 2
    /\ pre = (0 :> 165 @@ 1 :> 255)
    /\ call.o = (0 :> 1 @@ 1 :> 128)
    /\ ret = (0 :> 1 @@ 1 :> 128)

C12_ShiftMovesBits ==
    /\ (call.op = "operator<<" /\ 0 < call.n /\ call.n < bit_count) =>
          /\ IsBytes(ret)
          /\ \A p \in 0 .. bit_count - 1 :
                BitAt(ret, p) = IF p >= call.n THEN BitAt(pre, p - call.n) ELSE 0
    /\ (call.op = "operator>>" /\ 0 < call.n /\ call.n < bit_count) =>
          /\ IsBytes(ret)
          /\ \A p \in 0 .. bit_count - 1 :
                BitAt(ret, p) = IF p + call.n < bit_count
                                THEN BitAt(pre, p + call.n) ELSE 0
    /\ (call.op \in {"operator<<", "operator>>"} /\ call.n = 0) => ret = pre
    /\ ( /\ call.op = "operator<<"
         /\ call.n = 1
         /\ N >= 2
         /\ \A p \in 0 .. bit_count - 1 : BitAt(pre, p) = IF p = 7 THEN 1 ELSE 0 )
       => /\ ret[0] = 0
          /\ ret[1] = 1
          /\ \A i \in 2 .. N - 1 : ret[i] = 0

\* C12's case: the single set bit at position 7 of a two-byte object, shifted
\* left by 1, is the single set bit at position 8.
C12_Witness ==
    /\ call.op = "operator<<"
    /\ call.n = 1
    /\ N = 2
    /\ pre = (0 :> 128 @@ 1 :> 0)
    /\ ret = (0 :> 0 @@ 1 :> 1)

=============================================================================
